---- MODULE Spec2Model ----
(***************************************************************************)
(* Model of utils/make_domsub_script.py: make_domain_substitution_script   *)
(* reads a regex list and a file list and writes a standalone shell script *)
(* that performs the domain substitution.                                  *)
(*                                                                         *)
(* Text is a sequence of characters, each character a one-character        *)
(* string.  A fixed line of the script template is kept as one token (the  *)
(* whole line as one string); the inputs' alphabets hold no character of   *)
(* those lines except where a whole template line is itself an input token *)
(* (HereEnd, TarLine), so equal texts are equal sequences.                 *)
(***************************************************************************)
EXTENDS Integers, Sequences, FiniteSets, TLC

\* ------------------------------------------------------------------ bounds

\* Longest regex list / file list drawn character by character.
MaxListLen == 3
\* Most pieces (group references and fragments of them) in a drawn rule.
MaxPieces == 3

\* ------------------------------------------------------- text and lists

NL == "\n"
FF == "\f"
CR == "\r"

\* The line boundaries of str.splitlines that the alphabets reach: line feed,
\* carriage return and form feed (it also splits at \v, \x1c-\x1e, \x85,
\* \u2028 and \u2029, which behave as the form feed does).
LineBoundaries == {NL, CR, FF}

\* Path.read_text opens the file in text mode with universal newlines: "\r\n"
\* and a lone "\r" are read as "\n".
RECURSIVE read_text(_)
read_text(bytes) ==
  IF bytes = <<>> THEN <<>>
  ELSE IF Head(bytes) = CR
       THEN IF Len(bytes) >= 2 /\ bytes[2] = NL
            THEN <<NL>> \o read_text(SubSeq(bytes, 3, Len(bytes)))
            ELSE <<NL>> \o read_text(Tail(bytes))
       ELSE <<Head(bytes)>> \o read_text(Tail(bytes))

\* str.splitlines: a line ends at every boundary (an empty line included), the
\* boundary is dropped, and text after the last boundary is a line only when it
\* is not empty.  cur is the line being collected.
RECURSIVE splitlines_from(_, _)
splitlines_from(text, cur) ==
  IF text = <<>> THEN (IF cur = <<>> THEN <<>> ELSE <<cur>>)
  ELSE IF Head(text) \in LineBoundaries
       THEN <<cur>> \o splitlines_from(Tail(text), <<>>)
       ELSE splitlines_from(Tail(text), Append(cur, Head(text)))

splitlines(text) == splitlines_from(text, <<>>)

\* filter(len, lines): the lines of length > 0, in order.
filter_len(lines) == SelectSeq(lines, LAMBDA l : Len(l) > 0)

\* tuple(filter(len, path.read_text().splitlines()))
read_list(bytes) == filter_len(splitlines(read_text(bytes)))

\* sep.join(lines)
RECURSIVE join(_, _)
join(sep, lines) ==
  IF lines = <<>> THEN <<>>
  ELSE IF Len(lines) = 1 THEN lines[1]
       ELSE lines[1] \o sep \o join(sep, Tail(lines))

\* ------------------------------------------------- regex translation

\* \d (it also matches the other Unicode decimal digits, which re.sub copies
\* into the replacement the same way).
Digits == {"0", "1", "2", "3", "4", "5", "6", "7", "8", "9"}

\* The length of the longest run of digits at the head of s (\d+ is greedy).
RECURSIVE digit_run(_)
digit_run(s) ==
  IF s # <<>> /\ Head(s) \in Digits THEN 1 + digit_run(Tail(s)) ELSE 0

\* Whether the pattern \\g<(\d+)> matches at the head of s.
match_at_head(s) ==
  /\ Len(s) >= 5
  /\ s[1] = "\\" /\ s[2] = "g" /\ s[3] = "<"
  /\ LET n == digit_run(SubSeq(s, 4, Len(s)))
     IN  n >= 1 /\ Len(s) >= 4 + n /\ s[4 + n] = ">"

\* Mutant of re_sub: only the first match is replaced (count=1).
RECURSIVE re_sub_first_only(_)
re_sub_first_only(x) ==
  IF x = <<>> THEN <<>>
  ELSE IF match_at_head(x)
       THEN LET n == digit_run(SubSeq(x, 4, Len(x)))
            IN  <<"$", "{">> \o SubSeq(x, 4, 3 + n) \o <<"}">>
                  \o SubSeq(x, 5 + n, Len(x))
       ELSE <<Head(x)>> \o re_sub_first_only(Tail(x))

\* re.sub(r'\\g<(\d+)>', r'${\1}', x): left to right, every non-overlapping
\* match is replaced by ${ + its digits + }, everything else is copied.
RECURSIVE re_sub(_)
re_sub(x) ==
  IF x = <<>> THEN <<>>
  ELSE IF match_at_head(x)
       THEN LET n == digit_run(SubSeq(x, 4, Len(x)))
            IN  <<"$", "{">> \o SubSeq(x, 4, 3 + n) \o <<"}">>
                  \o re_sub(SubSeq(x, 5 + n, Len(x)))
       ELSE <<Head(x)>> \o re_sub(Tail(x))

\* 's#' + re.sub(...) + '#g'
perl_replace(x) == <<"s", "#">> \o re_sub(x) \o <<"#", "g">>

\* f'    {x};' for x, one element of perl_replace_list
statement_line(x) == <<" ", " ", " ", " ">> \o x \o <<";">>

\* ------------------------------------------------------ script template

Shebang == "#!/bin/sh -e"
Guard == "test -f build/config/compiler/BUILD.gn"
FuncOpen == "print_file_list() {"
HereOpen == "\tcat <<'__END__'"
HereEnd == "__END__"
FuncClose == "}"
BackupMsg == "echo \"Creating backup archive ...\""
BackupVar == "backup=domain-substitution.orig.tar"
TarLine == "print_file_list | tar cf $backup --verbatim-files-from --files-from=-"
SubstMsgHead == "echo \"Applying ungoogled-chromium domain substitution to "
SubstMsgTail == " files ...\""
PerlLine == "print_file_list | xargs -d '\\n' perl -0777 -C0 -pwi -e '"
PerlClose == "'"

\* The template's lines before the first %s (the file list).
TemplateHead ==
  << <<Shebang>>,
     <<"#">>,
     <<"# This script performs domain substitution on the Chromium source files.">>,
     <<"#">>,
     <<"# Generated by make_domsub_script.py, part of the ungoogled-chromium project:">>,
     <<"# https://github.com/ungoogled-software/ungoogled-chromium.git">>,
     <<"#">>,
     <<>>,
     <<"# Check that we are inside the Chromium source tree">>,
     <<Guard>>,
     <<>>,
     <<"# These filenames may contain spaces and/or other unusual characters">>,
     <<FuncOpen>>,
     <<HereOpen>> >>

\* The lines between the file list and the %d of the file count.
TemplateBackup ==
  << <<HereEnd>>,
     <<FuncClose>>,
     <<>>,
     <<BackupMsg>>,
     <<>>,
     <<BackupVar>>,
     <<TarLine>>,
     <<>> >>

\* The line holding %d, and the lines up to the second %s (the statements).
TemplateSubst(count) ==
  << <<SubstMsgHead, ToString(count), SubstMsgTail>>,
     <<>>,
     <<PerlLine>> >>

\* The lines after the statements.
TemplateTail ==
  << <<PerlClose>>,
     <<>>,
     <<"# end">> >>

\* Every line of ls followed by a newline.
RECURSIVE lines_text(_)
lines_text(ls) ==
  IF ls = <<>> THEN <<>> ELSE Head(ls) \o <<NL>> \o lines_text(Tail(ls))

\* perl_replace_list, files_list_str, perl_replace_list_str and the text
\* """...""" % (files_list_str, len(files_list), perl_replace_list_str).
render(regex_list, files_list) ==
  LET perl_replace_list == [i \in 1..Len(regex_list) |-> perl_replace(regex_list[i])]
      files_list_str == join(<<NL>>, files_list)
      perl_replace_list_str ==
        join(<<NL>>, [i \in 1..Len(perl_replace_list) |->
                        statement_line(perl_replace_list[i])])
  IN  lines_text(TemplateHead) \o files_list_str \o <<NL>>
        \o lines_text(TemplateBackup)
        \o lines_text(TemplateSubst(Len(files_list)))
        \o perl_replace_list_str \o <<NL>>
        \o lines_text(TemplateTail)

\* ---------------------------------------------------------------- state

RegexPath == "domain_regex.list"
FilesPath == "domain_substitution.list"
ScriptPath == "gen.sh"

\* The paths an invocation is given as its list arguments / as its output.
InputPaths == {RegexPath, FilesPath}
OutputPaths == {ScriptPath}
Paths == InputPaths \cup OutputPaths

NoFile == [exists |-> FALSE, data |-> <<>>]
File(d) == [exists |-> TRUE, data |-> d]

\* Contents the lists take in the file-system scenario.
SampleLists == { <<>>, <<"a", NL>>, <<"a", NL, NL, "b", NL>> }
\* What a file found at the output path before any invocation holds.
Foreign == <<"#", "!", NL>>

VARIABLES
  fs,           \* the file system: path -> NoFile or File(content)
  pc,           \* where the invocation stands
  regex_path,   \* the three arguments of the invocation
  files_path,
  output_path,
  regex_list,   \* the locals regex_list and files_list
  files_list,
  raised,       \* the exception the invocation ended with, or "none"
  io,           \* the file-system calls of the invocation so far, in order
  before,       \* fs as it was when the invocation was made
  first_script, \* path -> what the first successful invocation wrote there
  rerun         \* the invocation was made after one had succeeded on its output path

vars == <<fs, pc, regex_path, files_path, output_path, regex_list, files_list,
          raised, io, before, first_script, rerun>>

locals == <<regex_list, files_list>>
args == <<regex_path, files_path, output_path>>
ghosts == <<before, first_script, rerun>>

Running == pc \notin {"idle", "returned", "raised"}
Ended == pc \in {"returned", "raised"}

\* ----------------------------------------------------------- invocation

\* make_domain_substitution_script(r, f, o) is called.
Call(r, f, o) ==
  /\ ~Running
  /\ pc' = "check_regex"
  /\ regex_path' = r /\ files_path' = f /\ output_path' = o
  /\ regex_list' = <<>> /\ files_list' = <<>>
  /\ raised' = "none"
  /\ io' = <<>>
  /\ before' = fs
  /\ rerun' = first_script[o].exists
  /\ UNCHANGED <<fs, first_script>>

Raise(e) ==
  /\ pc' = "raised"
  /\ raised' = e

\* Mutant of CheckRegex: the check of the regex list is left out.
CheckRegex_skipped ==
  /\ pc = "check_regex"
  /\ io' = Append(io, <<"exists", regex_path>>)
  /\ pc' = "check_files"
  /\ UNCHANGED <<fs, args, locals, raised, ghosts>>

\* if not regex_path.exists(): raise FileNotFoundError(regex_path)
CheckRegex ==
  /\ pc = "check_regex"
  /\ io' = Append(io, <<"exists", regex_path>>)
  /\ IF ~fs[regex_path].exists
     THEN Raise("FileNotFoundError")
     ELSE pc' = "check_files" /\ UNCHANGED raised
  /\ UNCHANGED <<fs, args, locals, ghosts>>

\* Mutant of CheckFiles: the check of the file list is left out.
CheckFiles_skipped ==
  /\ pc = "check_files"
  /\ io' = Append(io, <<"exists", files_path>>)
  /\ pc' = "check_output"
  /\ UNCHANGED <<fs, args, locals, raised, ghosts>>

\* if not files_path.exists(): raise FileNotFoundError(files_path)
CheckFiles ==
  /\ pc = "check_files"
  /\ io' = Append(io, <<"exists", files_path>>)
  /\ IF ~fs[files_path].exists
     THEN Raise("FileNotFoundError")
     ELSE pc' = "check_output" /\ UNCHANGED raised
  /\ UNCHANGED <<fs, args, locals, ghosts>>

\* Mutant of CheckOutput: an existing output file is overwritten.
CheckOutput_skipped ==
  /\ pc = "check_output"
  /\ io' = Append(io, <<"exists", output_path>>)
  /\ pc' = "read_regex"
  /\ UNCHANGED <<fs, args, locals, raised, ghosts>>

\* Mutant of CheckOutput: the output is checked, and found, but the wrong
\* exception is raised.
CheckOutput_not_found ==
  /\ pc = "check_output"
  /\ io' = Append(io, <<"exists", output_path>>)
  /\ IF fs[output_path].exists
     THEN Raise("FileNotFoundError")
     ELSE pc' = "read_regex" /\ UNCHANGED raised
  /\ UNCHANGED <<fs, args, locals, ghosts>>

\* if output_path.exists(): raise FileExistsError(output_path)
CheckOutput ==
  /\ pc = "check_output"
  /\ io' = Append(io, <<"exists", output_path>>)
  /\ IF fs[output_path].exists
     THEN Raise("FileExistsError")
     ELSE pc' = "read_regex" /\ UNCHANGED raised
  /\ UNCHANGED <<fs, args, locals, ghosts>>

\* regex_list = tuple(filter(len, regex_path.read_text().splitlines()))
ReadRegex ==
  /\ pc = "read_regex"
  /\ io' = Append(io, <<"read", regex_path>>)
  /\ regex_list' = read_list(fs[regex_path].data)
  /\ pc' = "read_files"
  /\ UNCHANGED <<fs, args, files_list, raised, ghosts>>

\* regex_path.read_text() raises (the path is a directory, is unreadable, or
\* does not decode).
ReadRegexError ==
  /\ pc = "read_regex"
  /\ io' = Append(io, <<"read", regex_path>>)
  /\ Raise("OSError")
  /\ UNCHANGED <<fs, args, locals, ghosts>>

\* files_list = tuple(filter(len, files_path.read_text().splitlines()))
ReadFiles ==
  /\ pc = "read_files"
  /\ io' = Append(io, <<"read", files_path>>)
  /\ files_list' = read_list(fs[files_path].data)
  /\ pc' = "open_output"
  /\ UNCHANGED <<fs, args, regex_list, raised, ghosts>>

\* files_path.read_text() raises.
ReadFilesError ==
  /\ pc = "read_files"
  /\ io' = Append(io, <<"read", files_path>>)
  /\ Raise("OSError")
  /\ UNCHANGED <<fs, args, locals, ghosts>>

\* open(output_path, 'w'): the file is created, or truncated, and is empty.
OpenOutput ==
  /\ pc = "open_output"
  /\ io' = Append(io, <<"open", output_path>>)
  /\ fs' = [fs EXCEPT ![output_path] = File(<<>>)]
  /\ pc' = "write_output"
  /\ UNCHANGED <<args, locals, raised, ghosts>>

\* open(output_path, 'w') raises (no such directory, no permission): no file
\* is created.
OpenOutputError ==
  /\ pc = "open_output"
  /\ io' = Append(io, <<"open", output_path>>)
  /\ Raise("OSError")
  /\ UNCHANGED <<fs, args, locals, ghosts>>

\* out.write(template % (...)) and the close that ends the with block.
WriteOutput ==
  /\ pc = "write_output"
  /\ io' = Append(io, <<"write", output_path>>)
  /\ fs' = [fs EXCEPT ![output_path] = File(render(regex_list, files_list))]
  /\ pc' = "returned"
  /\ first_script' =
       IF first_script[output_path].exists THEN first_script
       ELSE [first_script EXCEPT ![output_path] = fs'[output_path]]
  /\ UNCHANGED <<args, locals, raised, before, rerun>>

\* What is left of a text whose write failed part-way: nothing, or the lines
\* that were flushed before the failure.
PartialWrites(text) ==
  {SubSeq(text, 1, k) : k \in {0} \cup {i \in 1..(Len(text) - 1) : text[i] = NL}}

\* The write, or the flush at close, raises (the disk is full): the with block
\* closes the file and the exception propagates; the file stays, with what
\* had been flushed.
WriteOutputError ==
  /\ pc = "write_output"
  /\ io' = Append(io, <<"write", output_path>>)
  /\ \E part \in PartialWrites(render(regex_list, files_list)) :
       fs' = [fs EXCEPT ![output_path] = File(part)]
  /\ Raise("OSError")
  /\ UNCHANGED <<args, locals, ghosts>>

\* Between two invocations the caller creates, rewrites or deletes a list.
EditInput(p, f) ==
  /\ ~Running
  /\ fs[p] # f
  /\ fs' = [fs EXCEPT ![p] = f]
  /\ pc' = "idle"
  /\ raised' = "none"
  /\ io' = <<>>
  /\ before' = fs'
  /\ regex_list' = <<>> /\ files_list' = <<>>
  /\ UNCHANGED <<args, first_script, rerun>>

Step ==
  \/ CheckRegex \/ CheckFiles \/ CheckOutput
  \/ ReadRegex \/ ReadFiles \/ OpenOutput \/ WriteOutput

Failure ==
  \/ ReadRegexError \/ ReadFilesError \/ OpenOutputError \/ WriteOutputError

\* ---------------------------------------- the file-system scenario (Spec)

Init ==
  /\ fs \in [Paths -> {NoFile} \cup {File(d) : d \in SampleLists \cup {Foreign}}]
  /\ \A p \in InputPaths : fs[p].exists => fs[p].data \in SampleLists
  /\ \A p \in OutputPaths : fs[p].exists => fs[p].data = Foreign
  /\ pc = "idle"
  /\ regex_path = RegexPath /\ files_path = FilesPath /\ output_path = ScriptPath
  /\ regex_list = <<>> /\ files_list = <<>>
  /\ raised = "none"
  /\ io = <<>>
  /\ before = fs
  /\ first_script = [p \in OutputPaths |-> NoFile]
  /\ rerun = FALSE

Next ==
  \/ \E r \in InputPaths, f \in InputPaths, o \in OutputPaths : Call(r, f, o)
  \/ Step
  \/ Failure
  \/ \E p \in InputPaths, f \in {NoFile} \cup {File(d) : d \in SampleLists} :
       EditInput(p, f)

Spec == Init /\ [][Next]_vars

\* ------------------------------------- the generation scenario (SpecGen)

\* The characters a drawn list is made of: a letter, a space, the three line
\* boundaries, and two whole lines of the script template met as list lines.
ListAlphabet == {"a", " ", NL, CR, FF, HereEnd, TarLine}

\* Every text of at most n characters of alphabet.
Texts(alphabet, n) == UNION {[1..k -> alphabet] : k \in 0..n}

\* The pieces a drawn rule list is made of: two group references, the
\* characters a reference is made of, a letter and the newline.
RulePieces ==
  { <<"\\", "g", "<", "1", ">">>, <<"\\", "g", "<", "2", "0", ">">>,
    <<"\\">>, <<"g">>, <<"<">>, <<"1">>, <<">">>, <<"a">>, <<NL>> }

RECURSIVE concat(_)
concat(pieces) ==
  IF pieces = <<>> THEN <<>> ELSE Head(pieces) \o concat(Tail(pieces))

RuleTexts == {concat(ps) : ps \in Texts(RulePieces, MaxPieces)}

\* The list that is not being drawn.
PlainList == <<"a", NL>>

InitGen ==
  /\ \/ \E t \in Texts(ListAlphabet, MaxListLen) :
          fs = [p \in Paths |-> IF p = RegexPath THEN File(t)
                                ELSE IF p = FilesPath THEN File(PlainList)
                                ELSE NoFile]
     \/ \E t \in Texts(ListAlphabet, MaxListLen) :
          fs = [p \in Paths |-> IF p = RegexPath THEN File(PlainList)
                                ELSE IF p = FilesPath THEN File(t)
                                ELSE NoFile]
     \/ \E t \in RuleTexts :
          fs = [p \in Paths |-> IF p = RegexPath THEN File(t)
                                ELSE IF p = FilesPath THEN File(PlainList)
                                ELSE NoFile]
  /\ pc = "idle"
  /\ regex_path = RegexPath /\ files_path = FilesPath /\ output_path = ScriptPath
  /\ regex_list = <<>> /\ files_list = <<>>
  /\ raised = "none"
  /\ io = <<>>
  /\ before = fs
  /\ first_script = [p \in OutputPaths |-> NoFile]
  /\ rerun = FALSE

\* One invocation on the drawn lists, and invocations after it.
NextGen ==
  \/ Call(RegexPath, FilesPath, ScriptPath)
  \/ Step

SpecGen == InitGen /\ [][NextGen]_vars

\* ===================================================== claims under Spec

InputsExisted == before[regex_path].exists /\ before[files_path].exists

\* The script a complete generation from the lists as they were at the call.
ScriptOfCall ==
  render(read_list(before[regex_path].data), read_list(before[files_path].data))

\* C1 as stated: every invocation that finds a file at the output path ends
\* with FileExistsError and leaves that file as it was.
C1_AlwaysAlreadyExists ==
  (Ended /\ before[output_path].exists)
    => /\ raised = "FileExistsError"
       /\ fs[output_path] = before[output_path]

\* C1 amended: an invocation that finds a file at the output path never
\* changes that file and never returns; it ends with FileExistsError when both
\* lists exist, and with FileNotFoundError when one of them is missing (the
\* lists are checked first).
C1_NonClobber ==
  (pc # "idle" /\ before[output_path].exists)
    => /\ fs[output_path] = before[output_path]
       /\ pc # "returned"
       /\ pc = "raised" =>
            raised = IF InputsExisted THEN "FileExistsError"
                     ELSE "FileNotFoundError"

C1_Witness ==
  /\ pc = "raised" /\ raised = "FileExistsError"
  /\ before[output_path] = File(Foreign)
  /\ fs[output_path] = File(Foreign)

\* C2: an invocation whose regex list or file list does not exist ends with
\* FileNotFoundError, gets no further than the two checks of the lists, and
\* creates no file (the file system stays as it was).
C2_MissingInput ==
  (pc # "idle" /\ ~InputsExisted)
    => /\ pc \in {"check_regex", "check_files", "raised"}
       /\ pc = "raised" => raised = "FileNotFoundError"
       /\ fs = before

C2_Witness ==
  /\ pc = "raised" /\ raised = "FileNotFoundError"
  /\ before[regex_path].exists /\ ~before[files_path].exists
  /\ ~before[output_path].exists /\ ~fs[output_path].exists

\* C3 as stated: whatever way an invocation ends, the lists are as they were,
\* no other path changed, and a file is at a previously empty output path
\* only if the invocation returned, and then it holds the complete script.
C3_AtomicSideEffects ==
  Ended
    => /\ \A p \in Paths \ {output_path} : fs[p] = before[p]
       /\ (~before[output_path].exists /\ fs[output_path].exists)
            => /\ pc = "returned"
               /\ fs[output_path].data = ScriptOfCall
       /\ pc = "returned"
            => ~before[output_path].exists /\ fs[output_path].exists

\* C4 as stated: every invocation made after one succeeded on the same output
\* path ends with FileExistsError and leaves the first script in place.
C4_RerunAlreadyExists ==
  (Ended /\ rerun)
    => /\ raised = "FileExistsError"
       /\ fs[output_path] = first_script[output_path]

\* C4 amended: once an invocation has succeeded, the file at its output path
\* stays what that invocation wrote, whatever the lists become, and every
\* later invocation on that path fails: with FileExistsError when both lists
\* exist, with FileNotFoundError when one of them is missing.
C4_RerunStable ==
  /\ \A p \in OutputPaths : first_script[p].exists => fs[p] = first_script[p]
  /\ (pc # "idle" /\ rerun)
       => /\ pc # "returned"
          /\ pc = "raised" =>
               raised = IF InputsExisted THEN "FileExistsError"
                        ELSE "FileNotFoundError"

\* A later invocation on changed lists: generating again would give another
\* script, and the first one is still there.
C4_Witness ==
  /\ pc = "raised" /\ raised = "FileExistsError" /\ rerun
  /\ fs[output_path] = first_script[output_path]
  /\ fs[output_path].data # ScriptOfCall

\* The file-system calls of an invocation that runs to its end.
CallOrder ==
  << <<"exists", regex_path>>, <<"exists", files_path>>, <<"exists", output_path>>,
     <<"read", regex_path>>, <<"read", files_path>>,
     <<"open", output_path>>, <<"write", output_path>> >>

\* C9: the calls of an invocation are a prefix of: exists(regex), exists(files),
\* exists(output), read(regex), read(files), open(output), write(output).  It
\* fails at the first check that is violated; a list is read or the output
\* opened only when all three checks passed; an invocation that failed a
\* check has read nothing and has left the file system as it was.
C9_PreconditionOrder ==
  pc # "idle"
    => /\ Len(io) <= Len(CallOrder)
       /\ io = SubSeq(CallOrder, 1, Len(io))
       /\ Len(io) > 3
            => InputsExisted /\ ~before[output_path].exists
       /\ raised = "FileNotFoundError"
            => \/ Len(io) = 1 /\ ~before[regex_path].exists
               \/ /\ Len(io) = 2
                  /\ before[regex_path].exists /\ ~before[files_path].exists
       /\ raised = "FileExistsError"
            => Len(io) = 3 /\ InputsExisted /\ before[output_path].exists
       /\ raised \in {"FileNotFoundError", "FileExistsError"}
            => /\ pc = "raised"
               /\ fs = before
               /\ regex_list = <<>> /\ files_list = <<>>
       /\ (pc = "raised" /\ Len(io) <= 3)
            => raised \in {"FileNotFoundError", "FileExistsError"}

C9_Witness ==
  /\ pc = "raised" /\ raised = "FileNotFoundError"
  /\ Len(io) = 2 /\ before[output_path].exists

\* ================================================== claims under SpecGen

\* ---- how a shell reads the emitted script

\* The lines of a text, each ended by a newline (a last line may lack it).
RECURSIVE newline_lines_from(_, _)
newline_lines_from(text, cur) ==
  IF text = <<>> THEN (IF cur = <<>> THEN <<>> ELSE <<cur>>)
  ELSE IF Head(text) = NL
       THEN <<cur>> \o newline_lines_from(Tail(text), <<>>)
       ELSE newline_lines_from(Tail(text), Append(cur, Head(text)))

newline_lines(text) == newline_lines_from(text, <<>>)

\* The first index >= from at which lines holds line, or 0.
first_index(lines, line, from) ==
  LET at == {i \in from..Len(lines) : lines[i] = line}
  IN  IF at = {} THEN 0 ELSE CHOOSE i \in at : \A j \in at : i <= j

\* What a shell finds in a script.  here: the here-document, from the line
\* after cat <<'__END__' to the line before the first line that is __END__ and
\* nothing else.  program: the lines inside the single quotes opened by the
\* xargs line (no drawn rule holds a single quote).  commands: the indices of
\* the lines run as commands, those outside the here-document and the quotes.
sh_parse(text) ==
  LET lines == newline_lines(text)
      here_start == first_index(lines, <<HereOpen>>, 1)
      here_stop == first_index(lines, <<HereEnd>>, here_start + 1)
      perl_start == first_index(lines, <<PerlLine>>, here_stop + 1)
      perl_stop == first_index(lines, <<PerlClose>>, perl_start + 1)
      program == SubSeq(lines, perl_start + 1, perl_stop - 1)
  IN  [ lines |-> lines,
        here |-> SubSeq(lines, here_start + 1, here_stop - 1),
        statements |-> SelectSeq(program, LAMBDA l : l # <<>>),
        commands |-> {i \in 1..Len(lines) :
                        /\ ~(here_start < i /\ i <= here_stop)
                        /\ ~(perl_start < i /\ i < perl_stop)} ]

Script == sh_parse(fs[output_path].data)

CommandsThatAre(s, line) == {i \in s.commands : s.lines[i] = line}

IsSubstMsg(line) ==
  Len(line) = 3 /\ line[1] = SubstMsgHead /\ line[3] = SubstMsgTail

SubstMsgs(s) == {i \in s.commands : IsSubstMsg(s.lines[i])}

\* ---- what the lists are, read as newline-delimited text

\* The non-blank lines of a newline-delimited list, in order (a line ends at
\* "\n", "\r\n" or "\r").
ListEntries(bytes) ==
  SelectSeq(newline_lines(read_text(bytes)), LAMBDA l : l # <<>>)

\* C5 as stated: the statements of the emitted script are, in order, one per
\* non-blank line of the rules list: four spaces, s#, the translated rule, #g
\* and the terminator ; (so there are as many statements as non-blank lines).
C5_RuleEmission ==
  pc = "returned"
    => LET rules == ListEntries(fs[regex_path].data)
           stmts == Script.statements
       IN  /\ Len(stmts) = Len(rules)
           /\ \A i \in 1..Len(rules) :
                stmts[i] =
                  <<" ", " ", " ", " ", "s", "#">> \o re_sub(rules[i])
                    \o <<"#", "g", ";">>

\* ---- group references, position by position

\* A group reference \g<N> starts at i and ends (its ">") at j.
IsRef(x, i, j) ==
  /\ i + 4 <= j /\ j <= Len(x)
  /\ x[i] = "\\" /\ x[i + 1] = "g" /\ x[i + 2] = "<" /\ x[j] = ">"
  /\ \A k \in (i + 3)..(j - 1) : x[k] \in Digits

RefStarts(x) == {i \in 1..Len(x) : \E j \in 1..Len(x) : IsRef(x, i, j)}
RefEnd(x, i) == CHOOSE j \in 1..Len(x) : IsRef(x, i, j)
InRef(x, k) == \E i \in RefStarts(x) : i <= k /\ k <= RefEnd(x, i)

\* Each reference is one character shorter once rewritten.
Shift(x, k) == Cardinality({i \in RefStarts(x) : i < k})

\* out is x with each \g<N> rewritten to ${N} and nothing else changed.
Translated(x, out) ==
  /\ Len(out) = Len(x) - Cardinality(RefStarts(x))
  /\ \A k \in 1..Len(x) :
       ~InRef(x, k) => out[k - Shift(x, k)] = x[k]
  /\ \A i \in RefStarts(x) :
       LET j == RefEnd(x, i)
           o == i - Shift(x, i)
       IN  /\ out[o] = "$" /\ out[o + 1] = "{"
           /\ \A k \in (i + 3)..(j - 1) : out[k - Shift(x, i) - 1] = x[k]
           /\ out[j - Shift(x, i) - 1] = "}"
  /\ RefStarts(out) = {}

\* What stands between s# and #g; of a statement (<<>> for any other line).
StatementBody(line) ==
  IF /\ Len(line) >= 9
     /\ SubSeq(line, 1, 6) = <<" ", " ", " ", " ", "s", "#">>
     /\ SubSeq(line, Len(line) - 2, Len(line)) = <<"#", "g", ";">>
  THEN SubSeq(line, 7, Len(line) - 3)
  ELSE <<>>

\* C6: in the statement emitted for a rule line, every \g<N> of the rule is
\* rewritten to ${N} with the same digits N, no \g<N> remains, and every other
\* character of the rule stands unchanged, in the same order, around the
\* rewritten references.
C6_GroupReferences ==
  pc = "returned"
    => LET stmts == Script.statements
       IN  /\ Len(stmts) = Len(regex_list)
           /\ \A i \in 1..Len(regex_list) :
                /\ Len(stmts[i]) = Len(regex_list[i]) + 9
                                     - Cardinality(RefStarts(regex_list[i]))
                /\ Translated(regex_list[i], StatementBody(stmts[i]))

\* A rule with two references, of different indices.
C6_Witness ==
  /\ pc = "returned"
  /\ regex_list = << <<"\\", "g", "<", "1", ">", "a",
                       "\\", "g", "<", "2", "0", ">">> >>
  /\ Script.statements =
                  << <<" ", " ", " ", " ", "s", "#",
                       "$", "{", "1", "}", "a", "$", "{", "2", "0", "}",
                       "#", "g", ";">> >>

\* C7 as stated: the non-blank lines of the files list are, verbatim and in
\* order, the lines of the here-document of the emitted script: none dropped,
\* duplicated, split, trimmed or reordered.
C7_FileListFidelity ==
  pc = "returned"
    => SelectSeq(Script.here, LAMBDA l : l # <<>>)
         = ListEntries(fs[files_path].data)

\* C8 as stated: the script starts with the shebang, and its commands are, in
\* this order, the guard, the definition of the file list, the backup message,
\* the one archive invocation, the substitution message and the one
\* substitution invocation.
C8_PhaseOrder ==
  pc = "returned"
    => LET s == Script
           guards == CommandsThatAre(s, <<Guard>>)
           defs == CommandsThatAre(s, <<FuncOpen>>)
           backup_msgs == CommandsThatAre(s, <<BackupMsg>>)
           backups == CommandsThatAre(s, <<TarLine>>)
           subst_msgs == SubstMsgs(s)
           substs == CommandsThatAre(s, <<PerlLine>>)
       IN  /\ s.lines[1] = <<Shebang>>
           /\ Cardinality(guards) = 1 /\ Cardinality(defs) = 1
           /\ Cardinality(backup_msgs) = 1 /\ Cardinality(backups) = 1
           /\ Cardinality(subst_msgs) = 1 /\ Cardinality(substs) = 1
           /\ \A g \in guards, d \in defs, b \in backup_msgs, t \in backups,
                 m \in subst_msgs, p \in substs :
                1 < g /\ g < d /\ d < b /\ b < t /\ t < m /\ m < p

\* C10 as stated: the count in the substitution message is the number of
\* lines of the here-document, the entries the script hands to tar and xargs.
C10_FileCount ==
  pc = "returned"
    => LET s == Script
       IN  /\ SubstMsgs(s) # {}
           /\ \A m \in SubstMsgs(s) :
                s.lines[m][2] = ToString(Len(s.here))

====
